---- MODULE Spec2Model ----
(***************************************************************************)
(* Model of the sharded concurrent map of                                  *)
(* 02-performance-allocation/02-concurrent-map-with-sharded-locks          *)
(* (concurrent.go): a fixed sequence of shards, each a map guarded by its  *)
(* own sync.RWMutex, and the operations NewShardedMap, Get, Set, Delete    *)
(* and Keys run by concurrent goroutines, one statement per step.          *)
(***************************************************************************)
EXTENDS Integers, Sequences, FiniteSets, TLC

\* ---- bounds ----
NumThreads == 2
MaxKey == 2
MaxVal == 1
MaxShards == 2
NegShards == 1
\* calls made on one store in a run
MaxCalls == 3
\* errors wrapped inside one another in an error given to IsTimeout
MaxDepth == 3

Threads == 1..NumThreads
Keys == 1..MaxKey
\* the values Set is called with, the zero value of V among them
Values == 0..MaxVal
ShardArgs == (0 - NegShards)..MaxShards

\* the zero value of V (V = int in the tests)
ZeroValue == 0
\* markers of the history variables
Absent == MaxVal + 1
Unknown == MaxVal + 2
Pending == MaxVal + 3
NoKey == 0
NoThread == 0
\* no shard
NoShard == 0 - 1

\* ---- hash/fnv, 64-bit FNV-1a, on little-endian byte tuples ----
Byte == 256
\* offset64 = 14695981039346656037
FnvOffset64 == <<37, 35, 34, 132, 228, 156, 242, 203>>
\* prime64 = 1099511628211
FnvPrime64 == <<179, 1, 0, 0, 0, 1, 0, 0>>

RECURSIVE BitXor(_, _)
BitXor(a, b) ==
    IF a = 0 THEN b
    ELSE IF b = 0 THEN a
    ELSE (((a % 2) + (b % 2)) % 2) + 2 * BitXor(a \div 2, b \div 2)

RECURSIVE ColSum(_, _, _)
\* sum of h[a] * p[j + 1 - a] for a in 1..n
ColSum(h, j, n) ==
    IF n = 0 THEN 0 ELSE h[n] * FnvPrime64[j + 1 - n] + ColSum(h, j, n - 1)

RECURSIVE MulPrime(_, _, _)
\* bytes j..8 of h * prime64 modulo 2^64
MulPrime(h, j, carry) ==
    IF j > 8 THEN <<>>
    ELSE LET s == ColSum(h, j, j) + carry
         IN  <<s % Byte>> \o MulPrime(h, j + 1, s \div Byte)

\* one round of fnv sum64a.Write: hash ^= c; hash *= prime64
FnvStep(h, c) == MulPrime([h EXCEPT ![1] = BitXor(h[1], c)], 1, 0)

RECURSIVE FnvWrite(_, _)
FnvWrite(h, bytes) ==
    IF bytes = <<>> THEN h ELSE FnvWrite(FnvStep(h, Head(bytes)), Tail(bytes))

RECURSIVE Sprintf(_)
\* fmt.Sprintf("%v", key) for a non-negative int key: its decimal digits
Sprintf(k) ==
    IF k < 10 THEN <<48 + k>> ELSE Sprintf(k \div 10) \o <<48 + (k % 10)>>

hashKey(k) == FnvWrite(FnvOffset64, Sprintf(k))

RECURSIVE ModU64(_, _, _, _)
\* hash % uint64(n), by Horner's rule from the most significant byte
ModU64(h, j, r, n) ==
    IF j = 0 THEN r ELSE ModU64(h, j - 1, (r * Byte + h[j]) % n, n)

getShardOf(k, n) == ModU64(hashKey(k), 8, 0, n)

\* the routing table, computed once per shard count
ShardTable == [n \in 1..(MaxShards + 1) |-> [k \in Keys |-> getShardOf(k, n)]]

\* ---- keys of the instantiations K = int and K = float64 ----
\* a key is its type, its sign bit and its magnitude (an integral value);
\* int has no negative zero, float64 has one (math.Copysign(0, -1))
IntKeys == {[kind |-> "int", neg |-> b, mag |-> m] :
               b \in BOOLEAN, m \in 0..MaxKey} \ {[kind |-> "int", neg |-> TRUE, mag |-> 0]}
FloatKeys == {[kind |-> "float64", neg |-> b, mag |-> m] : b \in BOOLEAN, m \in 0..MaxKey}
TypedKeys == IntKeys \cup FloatKeys
ZeroKey == [kind |-> "int", neg |-> FALSE, mag |-> 0]

\* k1 == k2 of the comparable constraint, the equality map[K]V indexes by:
\* the float64 zeros +0 and -0 are equal
KeyEq(a, b) == a.kind = b.kind /\ a.mag = b.mag /\ (a.neg = b.neg \/ a.mag = 0)

\* fmt.Sprintf("%v", key): a minus sign when the sign bit is set ("-0" for
\* the negative float64 zero), then the decimal digits
SprintfKey(a) == IF a.neg THEN <<45>> \o Sprintf(a.mag) ELSE Sprintf(a.mag)

hashTypedKey(a) == FnvWrite(FnvOffset64, SprintfKey(a))

\* variant: the hash is converted to int before the remainder is taken, so
\* a hash with the top bit set gives a negative remainder
getShardTypedSigned(a, n) ==
    LET h == hashTypedKey(a)
        r == ModU64(h, 8, 0, n)
        p == (ModU64([j \in 1..8 |-> Byte - 1], 8, 0, n) + 1) % n
    IN  IF h[8] >= Byte \div 2 THEN 0 - ((p + n - r) % n) ELSE r

\* int(hashKey(key) % uint64(m.numShards))
getShardTyped(a, n) == ModU64(hashTypedKey(a), 8, 0, n)

\* ---- map primitives of a shard's data ----
\* variant: the lookup reports every key as found
MapLoadAlwaysOk(d, k) == IF k \in DOMAIN d THEN <<d[k], TRUE>> ELSE <<ZeroValue, TRUE>>
MapLoad(d, k) == IF k \in DOMAIN d THEN <<d[k], TRUE>> ELSE <<ZeroValue, FALSE>>
\* variant: the store keeps an existing entry instead of overwriting it
MapStoreIfAbsent(d, k, v) == [x \in (DOMAIN d) \cup {k} |-> IF x \in DOMAIN d THEN d[x] ELSE v]
MapStore(d, k, v) == [x \in (DOMAIN d) \cup {k} |-> IF x = k THEN v ELSE d[x]]
\* variant: the removal leaves the entry in place
MapDeleteNoop(d, k) == d
MapDelete(d, k) == [x \in (DOMAIN d) \ {k} |-> d[x]]
MapLen(d) == Cardinality(DOMAIN d)

RECURSIVE Orders(_)
\* every order in which `for key := range data` may yield the keys
Orders(S) ==
    IF S = {} THEN {<<>>}
    ELSE UNION {{<<x>> \o s : s \in Orders(S \ {x})} : x \in S}

Range(s) == {s[j] : j \in DOMAIN s}

\* ---- sync.RWMutex: at most one writer, or any number of readers ----
\* (which of several waiting goroutines gets the lock next is left open)
NewRWMutex == [w |-> NoThread, r |-> {}]
CanRLock(m) == m.w = NoThread
RLock(m, t) == [m EXCEPT !.r = @ \cup {t}]
RUnlock(m, t) == [m EXCEPT !.r = @ \ {t}]
CanLock(m) == m.w = NoThread /\ m.r = {}
Lock(m, t) == [m EXCEPT !.w = t]
Unlock(m, t) == [m EXCEPT !.w = NoThread]

VARIABLES
    status,      \* "unbuilt", "ready" (NewShardedMap returned) or "panicked"
    reqShards,   \* the argument NewShardedMap was called with
    numShards,   \* ShardedMap.numShards
    shards,      \* ShardedMap.shards: index -> [mu, data]
    pc,          \* position of each goroutine in its current call
    calls,       \* number of Get, Set, Delete and Keys calls made so far
    key, val,    \* arguments of the current call
    shardIndex,  \* local shardIndex of Get, Set, Delete
    value, ok,   \* results of Get
    i, totalLen, keys,   \* locals of Keys
    \* history variables (never read by the operations)
    stable,      \* per key: outcome of the last write call when it overlapped no other
    expect,      \* per Get: stable[key] at the call, Unknown once a write on key is called
    written,     \* per key: the values Set was ever called with
    lastLocked,  \* per key: outcome of the write call that last took the shard lock
    prior,       \* per write call: the entry it found (a value or Absent)
    cont,        \* per Keys call: keys present at the call and never deleted since
    disturbed,   \* per Keys call: a Set or Delete call overlapped it
    missed,      \* per Keys call: keys inserted into a shard after its copy scan missed them
    late,        \* per Keys call: keys inserted, after a missed one, into a shard not yet scanned
    seen,        \* per Keys call: every key set the store held during the call
    accessed     \* per call: the shard whose data the call last read or wrote

storeVars == <<status, reqShards, numShards, shards>>
localVars == <<key, val, shardIndex, value, ok, i, totalLen, keys>>
getHist == <<stable, expect, written, lastLocked, prior>>
keysHist == <<cont, disturbed, missed, late, seen>>
mapVars == <<storeVars, pc, calls, localVars, getHist, keysHist, accessed>>

\* ---- getShard on its own: one store type, NumThreads callers ----
VARIABLES
    rNumShards,   \* m.numShards of the store getShard is called on
    rKey,         \* per caller: the key argument
    rIndex,       \* per caller: the index getShard returned
    rPc           \* per caller: "idle" or "routed"

routeVars == <<rNumShards, rKey, rIndex, rPc>>

\* ---- one caller making the same calls on two stores of one key type ----
VARIABLES
    eKind,        \* the key type K of both stores
    eNumShards,   \* numShards of the second store; the first has one shard
    eOne,         \* shards of NewShardedMap(1): index -> data
    eMany,        \* shards of NewShardedMap(eNumShards): index -> data
    eResOne,      \* what the last call returned on the first store
    eResMany,     \* what the last call returned on the second store
    eCalls        \* number of calls made so far

equivVars == <<eKind, eNumShards, eOne, eMany, eResOne, eResMany, eCalls>>

\* ---- UserAggregator.Aggregate (package main) ----
VARIABLES
    profileFunc,  \* ua.profileFunc: how the profile fetch behaves
    orderFunc,    \* ua.orderFunc: how the orders fetch behaves
    aggPc,        \* position of Aggregate
    goPc,         \* per g.Go goroutine: "unborn", "fetch", "fetched", "returned"
    fetched,      \* per goroutine: the (value, err) its fetch returned
    gCtx,         \* the group context: "live", or why it is done
    gErr,         \* the group's error, set once
    profileName,  \* local of Aggregate
    orderCount,   \* local of Aggregate
    aggResult,    \* the string Aggregate returned
    aggErr,       \* the error Aggregate returned
    \* history variable
    firstErr      \* the first error a goroutine of the group returned

aggVars == <<profileFunc, orderFunc, aggPc, goPc, fetched, gCtx, gErr,
             profileName, orderCount, aggResult, aggErr, firstErr>>

\* ---- CloudStorageGateway.UploadFile (package propagator) ----
VARIABLES
    mockAuth,     \* the error ValidateToken returns (nil: a user ID)
    mockCreate,   \* the error CreateFileRecord returns (nil: a file ID)
    mockStorage,  \* the error the storage's UploadFile returns
    mockUpdate,   \* the error UpdateFileStatus returns
    upPc,         \* position of UploadFile
    upErr,        \* local err of UploadFile
    upLog,        \* the service calls made so far, in order
    upRet         \* the error UploadFile returned

upVars == <<mockAuth, mockCreate, mockStorage, mockUpdate, upPc, upErr, upLog, upRet>>

\* ---- IsTimeout (package propagator) ----
VARIABLES
    tErr,         \* the argument err
    tResult,      \* what IsTimeout returned
    tPc           \* "call" or "done"

timeoutVars == <<tErr, tResult, tPc>>

\* ---- AuthError.Error (package propagator) ----
VARIABLES
    authErrs,     \* two AuthError values that differ at most in APIKey
    errStrings,   \* per value: the string Error() returned
    errPc         \* per value: "call" or "done"

authVars == <<authErrs, errStrings, errPc>>
auxVars == <<routeVars, equivVars, aggVars, upVars, timeoutVars, authVars>>
vars == <<mapVars, auxVars>>

GetPcs == {"get_rlock", "get_read", "get_runlock"}
WritePcs == {"set_lock", "set_store", "set_unlock", "del_lock", "del_delete", "del_unlock"}
CountPcs == {"keys_count_rlock", "keys_count_len", "keys_count_runlock"}
CopyPcs == {"keys_copy_rlock", "keys_copy_range", "keys_copy_runlock"}
KeysPcs == CountPcs \cup CopyPcs
DonePcs == {"get_done", "set_done", "del_done", "keys_done"}

\* the keys the store holds, over all shards
KeysIn(sh) == UNION {DOMAIN sh[j].data : j \in DOMAIN sh}
StoreKeys == KeysIn(shards)
\* another goroutine is inside a Set or Delete call on k
OtherWrite(t, k) == \E u \in Threads \ {t} : pc[u] \in WritePcs /\ key[u] = k
\* the copy pass of u's Keys call has finished with shard s
Scanned(u, s) == pc[u] \in CopyPcs /\ i[u] > s

\* no getShard call of the routing check is under way
RouteOff ==
    /\ rNumShards = 0
    /\ rKey = [t \in Threads |-> ZeroKey]
    /\ rIndex = [t \in Threads |-> 0]
    /\ rPc = [t \in Threads |-> "idle"]

\* ---- error values ----
\* the nil error
Nil == [kind |-> "nil"]
\* errors.New(m), and the sentinel errors of package context
NewError(m) == [kind |-> "errorString", msg |-> <<m>>]
Canceled == NewError("context canceled")
\* context.DeadlineExceeded: its type has Timeout() returning true
DeadlineExceeded == [kind |-> "deadlineExceededError", msg |-> <<"context deadline exceeded">>]

\* texts are sequences of pieces; "" is the empty sequence
RECURSIVE ErrorText(_)

\* variant: Error() prints the API key itself
AuthErrorTextLeaks(e) ==
    <<"auth error during ">> \o e.Op \o <<" for user ">> \o e.UserID
        \o <<" (key=">> \o e.APIKey \o <<"): ">> \o ErrorText(e.err)

\* func (e *AuthError) Error() string
AuthErrorText(e) ==
    LET redactedKey == IF e.APIKey # <<>> THEN <<>> ELSE <<"[REDACTED]">>
    IN  <<"auth error during ">> \o e.Op \o <<" for user ">> \o e.UserID
            \o <<" (key=">> \o redactedKey \o <<"): ">> \o ErrorText(e.err)

\* func (e *MetadataError) Error() string
MetadataErrorText(e) ==
    <<"metadata error during ">> \o e.Op \o <<" for file ">> \o e.FileID
        \o <<": ">> \o ErrorText(e.err)

\* func (e *StorageError) Error() string
StorageErrorText(e) ==
    <<"storage error during ">> \o e.Op \o <<" for bucket ">> \o e.Bucket
        \o <<" and key ">> \o e.Key \o <<": ">> \o ErrorText(e.err)

\* func (e *StorageQuotaError) Error() string
StorageQuotaErrorText(e) ==
    <<"storage quota exceeded for bucket ">> \o e.Bucket \o <<": usage ">>
        \o e.CurrentUsage \o <<" / limit ">> \o e.Limit \o <<": ">> \o ErrorText(e.err)

\* err.Error(), and what the verb %w prints for err (nil included)
ErrorText(e) ==
    CASE e.kind = "nil" -> <<"%!w(<nil>)">>
      [] e.kind = "AuthError" -> AuthErrorText(e)
      [] e.kind = "MetadataError" -> MetadataErrorText(e)
      [] e.kind = "StorageError" -> StorageErrorText(e)
      [] e.kind = "StorageQuotaError" -> StorageQuotaErrorText(e)
      [] OTHER -> e.msg

\* fmt.Errorf(prefix + "%w", e): the text of e after the prefix, Unwrap gives e
Errorf(prefix, e) == [kind |-> "wrapError", msg |-> <<prefix>> \o ErrorText(e), err |-> e]

\* func WrapWithContext(err error, format string, args ...interface{}) error
WrapWithContext(e, m) ==
    IF e = Nil THEN Nil
    ELSE [kind |-> "wrapError", msg |-> <<m, ": ">> \o ErrorText(e), err |-> e]

\* the sentinel errors of package propagator
ErrAuthFailed == NewError("authentication failed")
ErrDatabaseDeadlock == NewError("database deadlock")
ErrStorageUnavailable == NewError("storage service unavailable")
ErrQuotaExceeded == NewError("storage quota exceeded")

Fetches == {"profile", "orders"}
\* a fetch returns its value, fails at once, waits for its work or the
\* context (the mock services), or waits for the context only (the test's
\* blocking fetch)
Behaviours == {"ok", "fail", "select", "wait"}
NoValue == ""
FetchValue == [profile |-> "Alice", orders |-> "5"]
FetchFailure == [profile |-> NewError("profile service exploded"),
                 orders |-> NewError("orders service exploded")]
NoFetch == [value |-> NoValue, err |-> Nil]

\* Aggregate is not running
AggOff ==
    /\ profileFunc = "ok"
    /\ orderFunc = "ok"
    /\ aggPc = "off"
    /\ goPc = [g \in Fetches |-> "unborn"]
    /\ fetched = [g \in Fetches |-> NoFetch]
    /\ gCtx = "live"
    /\ gErr = Nil
    /\ profileName = NoValue
    /\ orderCount = NoValue
    /\ aggResult = <<>>
    /\ aggErr = Nil
    /\ firstErr = Nil

\* the errors the services of the gateway return
AuthFailures ==
    {[kind |-> "AuthError", Op |-> <<"validate_token">>, UserID |-> <<>>, APIKey |-> <<>>,
      err |-> ErrAuthFailed, isTimeout |-> FALSE],
     [kind |-> "AuthError", Op |-> <<"validate_token">>, UserID |-> <<>>, APIKey |-> <<>>,
      err |-> DeadlineExceeded, isTimeout |-> TRUE]}
MetadataFailures(op) ==
    {[kind |-> "MetadataError", Op |-> <<op>>, FileID |-> <<"file456">>,
      err |-> ErrDatabaseDeadlock],
     DeadlineExceeded}
StorageFailures ==
    {[kind |-> "StorageError", Op |-> <<"upload">>, Bucket |-> <<"my-bucket">>,
      Key |-> <<"file456">>, err |-> ErrStorageUnavailable, isTimeout |-> FALSE],
     [kind |-> "StorageError", Op |-> <<"upload">>, Bucket |-> <<"my-bucket">>,
      Key |-> <<"file456">>, err |-> DeadlineExceeded, isTimeout |-> TRUE],
     [kind |-> "StorageQuotaError", Bucket |-> <<"my-bucket">>, CurrentUsage |-> <<"1000">>,
      Limit |-> <<"500">>, err |-> ErrQuotaExceeded]}

\* UploadFile is not running
UpOff ==
    /\ mockAuth = Nil
    /\ mockCreate = Nil
    /\ mockStorage = Nil
    /\ mockUpdate = Nil
    /\ upPc = "off"
    /\ upErr = Nil
    /\ upLog = <<>>
    /\ upRet = Nil

\* IsTimeout is not running
TimeoutOff ==
    /\ tErr = Nil
    /\ tResult = FALSE
    /\ tPc = "off"

\* the two AuthError values
Pair == 1..2
ZeroAuthError ==
    [kind |-> "AuthError", Op |-> <<>>, UserID |-> <<>>, APIKey |-> <<>>, err |-> Nil,
     isTimeout |-> FALSE]

\* Error() is not running
AuthOff ==
    /\ authErrs = [j \in Pair |-> ZeroAuthError]
    /\ errStrings = [j \in Pair |-> <<>>]
    /\ errPc = [j \in Pair |-> "off"]

\* a call that returns nothing
NoResult == [op |-> "none"]

\* no call of the two-store run is under way
EquivOff ==
    /\ eKind = "int"
    /\ eNumShards = 0
    /\ eOne = <<>>
    /\ eMany = <<>>
    /\ eResOne = NoResult
    /\ eResMany = NoResult
    /\ eCalls = 0

\* the store before NewShardedMap
MapInit ==
    /\ status = "unbuilt"
    /\ reqShards = 0
    /\ numShards = 0
    /\ shards = <<>>
    /\ pc = [t \in Threads |-> "idle"]
    /\ calls = 0
    /\ key = [t \in Threads |-> NoKey]
    /\ val = [t \in Threads |-> ZeroValue]
    /\ shardIndex = [t \in Threads |-> 0]
    /\ value = [t \in Threads |-> ZeroValue]
    /\ ok = [t \in Threads |-> FALSE]
    /\ i = [t \in Threads |-> 0]
    /\ totalLen = [t \in Threads |-> 0]
    /\ keys = [t \in Threads |-> <<>>]
    /\ stable = [k \in Keys |-> Absent]
    /\ expect = [t \in Threads |-> Unknown]
    /\ written = [k \in Keys |-> {}]
    /\ lastLocked = [k \in Keys |-> Absent]
    /\ prior = [t \in Threads |-> Unknown]
    /\ cont = [t \in Threads |-> {}]
    /\ disturbed = [t \in Threads |-> FALSE]
    /\ missed = [t \in Threads |-> {}]
    /\ late = [t \in Threads |-> {}]
    /\ seen = [t \in Threads |-> {}]
    /\ accessed = [t \in Threads |-> NoShard]

Init == MapInit /\ RouteOff /\ EquivOff /\ AggOff /\ UpOff /\ TimeoutOff /\ AuthOff

\* variant: a shard count below 1 is clamped to 1 instead of panicking
NewShardedMapClamped(n) ==
    /\ status = "unbuilt"
    /\ reqShards' = n
    /\ status' = "ready"
    /\ numShards' = (IF n < 1 THEN 1 ELSE n)
    /\ shards' = [j \in 0..(numShards' - 1) |-> [mu |-> NewRWMutex, data |-> <<>>]]
    /\ UNCHANGED <<pc, calls, localVars, getHist, keysHist, accessed, auxVars>>

\* variant: the shard slice is made one element longer than numShards
NewShardedMapOneMore(n) ==
    /\ status = "unbuilt"
    /\ reqShards' = n
    /\ IF n < 1
       THEN /\ status' = "panicked"
            /\ UNCHANGED <<numShards, shards>>
       ELSE /\ status' = "ready"
            /\ numShards' = n
            /\ shards' = [j \in 0..n |-> [mu |-> NewRWMutex, data |-> <<>>]]
    /\ UNCHANGED <<pc, localVars, getHist, keysHist>>
    /\ UNCHANGED <<calls, accessed, auxVars>>

\* func NewShardedMap(numShards int) *ShardedMap
NewShardedMap(n) ==
    /\ status = "unbuilt"
    /\ reqShards' = n
    /\ IF n < 1
       THEN /\ status' = "panicked"
            /\ UNCHANGED <<numShards, shards>>
       ELSE /\ status' = "ready"
            /\ numShards' = n
            /\ shards' = [j \in 0..(n - 1) |-> [mu |-> NewRWMutex, data |-> <<>>]]
    /\ UNCHANGED <<pc, localVars, getHist, keysHist>>
    /\ UNCHANGED <<calls, accessed, auxVars>>

\* func (m *ShardedMap) getShard(key K) int
getShard(k) == ShardTable[numShards][k]

\* ---- Get ----
GetCall(t, k) ==
    /\ status = "ready" /\ pc[t] = "idle" /\ calls < MaxCalls
    /\ calls' = calls + 1
    /\ key' = [key EXCEPT ![t] = k]
    /\ shardIndex' = [shardIndex EXCEPT ![t] = getShard(k)]
    /\ pc' = [pc EXCEPT ![t] = "get_rlock"]
    /\ expect' = [expect EXCEPT ![t] =
                     IF stable[k] \in {Pending, Unknown} THEN Unknown ELSE stable[k]]
    /\ UNCHANGED <<storeVars, val, value, ok, i, totalLen, keys>>
    /\ UNCHANGED <<stable, written, lastLocked, prior, keysHist>>
    /\ UNCHANGED <<accessed, auxVars>>

GetRLock(t) ==
    /\ pc[t] = "get_rlock"
    /\ CanRLock(shards[shardIndex[t]].mu)
    /\ shards' = [shards EXCEPT ![shardIndex[t]].mu = RLock(@, t)]
    /\ pc' = [pc EXCEPT ![t] = "get_read"]
    /\ UNCHANGED <<status, reqShards, numShards, localVars, getHist, keysHist>>
    /\ UNCHANGED <<calls, accessed, auxVars>>

\* variant: the lookup always reads shard 0
GetReadShardZero(t) ==
    /\ pc[t] = "get_read"
    /\ LET r == MapLoad(shards[0].data, key[t])
       IN  /\ value' = [value EXCEPT ![t] = r[1]]
           /\ ok' = [ok EXCEPT ![t] = r[2]]
    /\ pc' = [pc EXCEPT ![t] = "get_runlock"]
    /\ UNCHANGED <<storeVars, key, val, shardIndex, i, totalLen, keys, getHist, keysHist>>
    /\ accessed' = [accessed EXCEPT ![t] = 0]
    /\ UNCHANGED <<calls, auxVars>>

\* variant: a lookup that misses leaves a zero-value entry behind
GetReadInserts(t) ==
    /\ pc[t] = "get_read"
    /\ LET r == MapLoad(shards[shardIndex[t]].data, key[t])
       IN  /\ value' = [value EXCEPT ![t] = r[1]]
           /\ ok' = [ok EXCEPT ![t] = r[2]]
           /\ shards' = IF r[2] THEN shards
                        ELSE [shards EXCEPT ![shardIndex[t]].data =
                                  MapStore(@, key[t], ZeroValue)]
    /\ pc' = [pc EXCEPT ![t] = "get_runlock"]
    /\ UNCHANGED <<status, reqShards, numShards>>
    /\ UNCHANGED <<key, val, shardIndex, i, totalLen, keys, getHist, keysHist>>
    /\ accessed' = [accessed EXCEPT ![t] = shardIndex[t]]
    /\ UNCHANGED <<calls, auxVars>>

GetRead(t) ==
    /\ pc[t] = "get_read"
    /\ LET r == MapLoad(shards[shardIndex[t]].data, key[t])
       IN  /\ value' = [value EXCEPT ![t] = r[1]]
           /\ ok' = [ok EXCEPT ![t] = r[2]]
    /\ pc' = [pc EXCEPT ![t] = "get_runlock"]
    /\ UNCHANGED <<storeVars, key, val, shardIndex, i, totalLen, keys, getHist, keysHist>>
    /\ accessed' = [accessed EXCEPT ![t] = shardIndex[t]]
    /\ UNCHANGED <<calls, auxVars>>

GetRUnlock(t) ==
    /\ pc[t] = "get_runlock"
    /\ shards' = [shards EXCEPT ![shardIndex[t]].mu = RUnlock(@, t)]
    /\ pc' = [pc EXCEPT ![t] = "get_done"]
    /\ UNCHANGED <<status, reqShards, numShards, localVars, getHist, keysHist>>
    /\ UNCHANGED <<calls, accessed, auxVars>>

\* history kept when goroutine t calls Set or Delete on k
WriteCallHist(t, k) ==
    /\ stable' = [stable EXCEPT ![k] = IF OtherWrite(t, k) THEN Unknown ELSE Pending]
    /\ expect' = [u \in Threads |->
                     IF pc[u] \in GetPcs /\ key[u] = k THEN Unknown ELSE expect[u]]
    /\ disturbed' = [u \in Threads |-> IF pc[u] \in KeysPcs THEN TRUE ELSE disturbed[u]]

\* history kept when the write call of t on key[t] returns with outcome r
WriteReturnHist(t, r) ==
    stable' = [stable EXCEPT ![key[t]] = IF @ = Pending THEN r ELSE Unknown]

\* the entry of k as the shard's map holds it: a value or Absent
Entry(d, k) == IF k \in DOMAIN d THEN d[k] ELSE Absent

\* ---- Set ----
SetCall(t, k, v) ==
    /\ status = "ready" /\ pc[t] = "idle" /\ calls < MaxCalls
    /\ calls' = calls + 1
    /\ key' = [key EXCEPT ![t] = k]
    /\ val' = [val EXCEPT ![t] = v]
    /\ shardIndex' = [shardIndex EXCEPT ![t] = getShard(k)]
    /\ pc' = [pc EXCEPT ![t] = "set_lock"]
    /\ WriteCallHist(t, k)
    /\ written' = [written EXCEPT ![k] = @ \cup {v}]
    /\ UNCHANGED <<storeVars, value, ok, i, totalLen, keys>>
    /\ UNCHANGED <<lastLocked, prior, cont, missed, late, seen>>
    /\ UNCHANGED <<accessed, auxVars>>

\* variant: Set takes the shard lock in shared mode
SetLockShared(t) ==
    /\ pc[t] = "set_lock"
    /\ CanRLock(shards[shardIndex[t]].mu)
    /\ shards' = [shards EXCEPT ![shardIndex[t]].mu = RLock(@, t)]
    /\ pc' = [pc EXCEPT ![t] = "set_store"]
    /\ lastLocked' = [lastLocked EXCEPT ![key[t]] = val[t]]
    /\ UNCHANGED <<status, reqShards, numShards, localVars>>
    /\ UNCHANGED <<stable, expect, written, prior, keysHist>>
    /\ UNCHANGED <<calls, accessed, auxVars>>

\* variant: Set waits until the lock of every shard is free
SetLockAllFree(t) ==
    /\ pc[t] = "set_lock"
    /\ \A j \in DOMAIN shards : CanLock(shards[j].mu)
    /\ shards' = [shards EXCEPT ![shardIndex[t]].mu = Lock(@, t)]
    /\ pc' = [pc EXCEPT ![t] = "set_store"]
    /\ lastLocked' = [lastLocked EXCEPT ![key[t]] = val[t]]
    /\ UNCHANGED <<status, reqShards, numShards, localVars>>
    /\ UNCHANGED <<stable, expect, written, prior, keysHist>>
    /\ UNCHANGED <<calls, accessed, auxVars>>

SetLock(t) ==
    /\ pc[t] = "set_lock"
    /\ CanLock(shards[shardIndex[t]].mu)
    /\ shards' = [shards EXCEPT ![shardIndex[t]].mu = Lock(@, t)]
    /\ pc' = [pc EXCEPT ![t] = "set_store"]
    /\ lastLocked' = [lastLocked EXCEPT ![key[t]] = val[t]]
    /\ UNCHANGED <<status, reqShards, numShards, localVars>>
    /\ UNCHANGED <<stable, expect, written, prior, keysHist>>
    /\ UNCHANGED <<calls, accessed, auxVars>>

\* variant: Set stores into the shard after the one the key routes to
SetStoreNextShard(t) ==
    /\ pc[t] = "set_store"
    /\ shards' = [shards EXCEPT ![(shardIndex[t] + 1) % numShards].data =
                                    MapStore(@, key[t], val[t])]
    /\ pc' = [pc EXCEPT ![t] = "set_unlock"]
    /\ prior' = [prior EXCEPT ![t] = Entry(shards[shardIndex[t]].data, key[t])]
    /\ seen' = [u \in Threads |->
                   IF pc[u] \in KeysPcs THEN seen[u] \cup {KeysIn(shards')} ELSE seen[u]]
    /\ UNCHANGED <<status, reqShards, numShards, localVars>>
    /\ UNCHANGED <<stable, expect, written, lastLocked, cont, disturbed, missed, late>>
    /\ accessed' = [accessed EXCEPT ![t] = (shardIndex[t] + 1) % numShards]
    /\ UNCHANGED <<calls, auxVars>>

SetStore(t) ==
    /\ pc[t] = "set_store"
    /\ shards' = [shards EXCEPT ![shardIndex[t]].data = MapStore(@, key[t], val[t])]
    /\ pc' = [pc EXCEPT ![t] = "set_unlock"]
    /\ prior' = [prior EXCEPT ![t] = Entry(shards[shardIndex[t]].data, key[t])]
    /\ LET fresh == key[t] \notin StoreKeys
           miss(u) == fresh /\ Scanned(u, shardIndex[t]) /\ key[t] \notin Range(keys[u])
       IN  /\ missed' = [u \in Threads |->
                            IF miss(u) THEN missed[u] \cup {key[t]} ELSE missed[u]]
           /\ late' = [u \in Threads |->
                          IF fresh /\ pc[u] \in KeysPcs /\ ~Scanned(u, shardIndex[t])
                                /\ missed[u] # {}
                          THEN late[u] \cup {key[t]} ELSE late[u]]
    /\ seen' = [u \in Threads |->
                   IF pc[u] \in KeysPcs THEN seen[u] \cup {KeysIn(shards')} ELSE seen[u]]
    /\ UNCHANGED <<status, reqShards, numShards, localVars>>
    /\ UNCHANGED <<stable, expect, written, lastLocked, cont, disturbed>>
    /\ accessed' = [accessed EXCEPT ![t] = shardIndex[t]]
    /\ UNCHANGED <<calls, auxVars>>

\* variant: Set returns without releasing the shard's lock
SetUnlockKept(t) ==
    /\ pc[t] = "set_unlock"
    /\ pc' = [pc EXCEPT ![t] = "set_done"]
    /\ WriteReturnHist(t, val[t])
    /\ UNCHANGED <<storeVars, localVars>>
    /\ UNCHANGED <<expect, written, lastLocked, prior, keysHist>>
    /\ UNCHANGED <<calls, accessed, auxVars>>

SetUnlock(t) ==
    /\ pc[t] = "set_unlock"
    /\ shards' = [shards EXCEPT ![shardIndex[t]].mu = Unlock(@, t)]
    /\ pc' = [pc EXCEPT ![t] = "set_done"]
    /\ WriteReturnHist(t, val[t])
    /\ UNCHANGED <<status, reqShards, numShards, localVars>>
    /\ UNCHANGED <<expect, written, lastLocked, prior, keysHist>>
    /\ UNCHANGED <<calls, accessed, auxVars>>

\* ---- Delete ----
DeleteCall(t, k) ==
    /\ status = "ready" /\ pc[t] = "idle" /\ calls < MaxCalls
    /\ calls' = calls + 1
    /\ key' = [key EXCEPT ![t] = k]
    /\ shardIndex' = [shardIndex EXCEPT ![t] = getShard(k)]
    /\ pc' = [pc EXCEPT ![t] = "del_lock"]
    /\ WriteCallHist(t, k)
    /\ UNCHANGED <<storeVars, val, value, ok, i, totalLen, keys>>
    /\ UNCHANGED <<written, lastLocked, prior, cont, missed, late, seen>>
    /\ UNCHANGED <<accessed, auxVars>>

\* variant: Delete takes the shard lock in shared mode
DeleteLockShared(t) ==
    /\ pc[t] = "del_lock"
    /\ CanRLock(shards[shardIndex[t]].mu)
    /\ shards' = [shards EXCEPT ![shardIndex[t]].mu = RLock(@, t)]
    /\ pc' = [pc EXCEPT ![t] = "del_delete"]
    /\ lastLocked' = [lastLocked EXCEPT ![key[t]] = Absent]
    /\ UNCHANGED <<status, reqShards, numShards, localVars>>
    /\ UNCHANGED <<stable, expect, written, prior, keysHist>>
    /\ UNCHANGED <<calls, accessed, auxVars>>

DeleteLock(t) ==
    /\ pc[t] = "del_lock"
    /\ CanLock(shards[shardIndex[t]].mu)
    /\ shards' = [shards EXCEPT ![shardIndex[t]].mu = Lock(@, t)]
    /\ pc' = [pc EXCEPT ![t] = "del_delete"]
    /\ lastLocked' = [lastLocked EXCEPT ![key[t]] = Absent]
    /\ UNCHANGED <<status, reqShards, numShards, localVars>>
    /\ UNCHANGED <<stable, expect, written, prior, keysHist>>
    /\ UNCHANGED <<calls, accessed, auxVars>>

\* variant: Delete replaces the shard's map by an empty one
DeleteClearsShard(t) ==
    /\ pc[t] = "del_delete"
    /\ shards' = [shards EXCEPT ![shardIndex[t]].data = <<>>]
    /\ pc' = [pc EXCEPT ![t] = "del_unlock"]
    /\ prior' = [prior EXCEPT ![t] = Entry(shards[shardIndex[t]].data, key[t])]
    /\ cont' = [u \in Threads |-> IF pc[u] \in KeysPcs THEN cont[u] \ {key[t]} ELSE cont[u]]
    /\ seen' = [u \in Threads |->
                   IF pc[u] \in KeysPcs THEN seen[u] \cup {KeysIn(shards')} ELSE seen[u]]
    /\ UNCHANGED <<status, reqShards, numShards, localVars>>
    /\ UNCHANGED <<stable, expect, written, lastLocked, disturbed, missed, late>>
    /\ accessed' = [accessed EXCEPT ![t] = shardIndex[t]]
    /\ UNCHANGED <<calls, auxVars>>

DeleteDelete(t) ==
    /\ pc[t] = "del_delete"
    /\ shards' = [shards EXCEPT ![shardIndex[t]].data = MapDelete(@, key[t])]
    /\ pc' = [pc EXCEPT ![t] = "del_unlock"]
    /\ prior' = [prior EXCEPT ![t] = Entry(shards[shardIndex[t]].data, key[t])]
    /\ cont' = [u \in Threads |-> IF pc[u] \in KeysPcs THEN cont[u] \ {key[t]} ELSE cont[u]]
    /\ seen' = [u \in Threads |->
                   IF pc[u] \in KeysPcs THEN seen[u] \cup {KeysIn(shards')} ELSE seen[u]]
    /\ UNCHANGED <<status, reqShards, numShards, localVars>>
    /\ UNCHANGED <<stable, expect, written, lastLocked, disturbed, missed, late>>
    /\ accessed' = [accessed EXCEPT ![t] = shardIndex[t]]
    /\ UNCHANGED <<calls, auxVars>>

\* variant: Delete releases with RUnlock the lock it took with Lock
DeleteUnlockShared(t) ==
    /\ pc[t] = "del_unlock"
    /\ shards' = [shards EXCEPT ![shardIndex[t]].mu = RUnlock(@, t)]
    /\ pc' = [pc EXCEPT ![t] = "del_done"]
    /\ WriteReturnHist(t, Absent)
    /\ UNCHANGED <<status, reqShards, numShards, localVars>>
    /\ UNCHANGED <<expect, written, lastLocked, prior, keysHist>>
    /\ UNCHANGED <<calls, accessed, auxVars>>

DeleteUnlock(t) ==
    /\ pc[t] = "del_unlock"
    /\ shards' = [shards EXCEPT ![shardIndex[t]].mu = Unlock(@, t)]
    /\ pc' = [pc EXCEPT ![t] = "del_done"]
    /\ WriteReturnHist(t, Absent)
    /\ UNCHANGED <<status, reqShards, numShards, localVars>>
    /\ UNCHANGED <<expect, written, lastLocked, prior, keysHist>>
    /\ UNCHANGED <<calls, accessed, auxVars>>

\* ---- Keys ----
KeysCall(t) ==
    /\ status = "ready" /\ pc[t] = "idle" /\ calls < MaxCalls
    /\ calls' = calls + 1
    /\ totalLen' = [totalLen EXCEPT ![t] = 0]
    /\ i' = [i EXCEPT ![t] = 0]
    /\ pc' = [pc EXCEPT ![t] = "keys_count_rlock"]
    /\ cont' = [cont EXCEPT ![t] = StoreKeys]
    /\ disturbed' = [disturbed EXCEPT ![t] = \E u \in Threads : pc[u] \in WritePcs]
    /\ seen' = [seen EXCEPT ![t] = {StoreKeys}]
    /\ UNCHANGED <<storeVars, key, val, shardIndex, value, ok, keys, getHist, missed, late>>
    /\ UNCHANGED <<accessed, auxVars>>

\* first loop: m.shards[i].mu.RLock()
\* variant: the counting pass reads the shard's length without its lock
KeysCountRLockSkipped(t) ==
    /\ pc[t] = "keys_count_rlock"
    /\ pc' = [pc EXCEPT ![t] = "keys_count_len"]
    /\ UNCHANGED <<storeVars, localVars, getHist, keysHist>>
    /\ UNCHANGED <<calls, accessed, auxVars>>

KeysCountRLock(t) ==
    /\ pc[t] = "keys_count_rlock"
    /\ CanRLock(shards[i[t]].mu)
    /\ shards' = [shards EXCEPT ![i[t]].mu = RLock(@, t)]
    /\ pc' = [pc EXCEPT ![t] = "keys_count_len"]
    /\ UNCHANGED <<status, reqShards, numShards, localVars, getHist, keysHist>>
    /\ UNCHANGED <<calls, accessed, auxVars>>

\* first loop: totalLen += len(m.shards[i].data)
KeysCountLen(t) ==
    /\ pc[t] = "keys_count_len"
    /\ totalLen' = [totalLen EXCEPT ![t] = @ + MapLen(shards[i[t]].data)]
    /\ pc' = [pc EXCEPT ![t] = "keys_count_runlock"]
    /\ UNCHANGED <<storeVars, key, val, shardIndex, value, ok, i, keys, getHist, keysHist>>
    /\ accessed' = [accessed EXCEPT ![t] = i[t]]
    /\ UNCHANGED <<calls, auxVars>>

\* first loop: RUnlock, i++; after the last shard, keys := make([]K, 0, totalLen)
\* variant: the counting pass releases a shard's lock only after the last shard
KeysCountRUnlockKept(t) ==
    /\ pc[t] = "keys_count_runlock"
    /\ IF i[t] + 1 < numShards
       THEN /\ i' = [i EXCEPT ![t] = @ + 1]
            /\ pc' = [pc EXCEPT ![t] = "keys_count_rlock"]
            /\ UNCHANGED <<keys, shards>>
       ELSE /\ shards' = [j \in DOMAIN shards |-> [shards[j] EXCEPT !.mu = RUnlock(@, t)]]
            /\ i' = [i EXCEPT ![t] = 0]
            /\ keys' = [keys EXCEPT ![t] = <<>>]
            /\ pc' = [pc EXCEPT ![t] = "keys_copy_rlock"]
    /\ UNCHANGED <<status, reqShards, numShards, key, val, shardIndex, value, ok, totalLen>>
    /\ UNCHANGED <<getHist, keysHist>>
    /\ UNCHANGED <<calls, accessed, auxVars>>

KeysCountRUnlock(t) ==
    /\ pc[t] = "keys_count_runlock"
    /\ shards' = [shards EXCEPT ![i[t]].mu = RUnlock(@, t)]
    /\ IF i[t] + 1 < numShards
       THEN /\ i' = [i EXCEPT ![t] = @ + 1]
            /\ pc' = [pc EXCEPT ![t] = "keys_count_rlock"]
            /\ UNCHANGED keys
       ELSE /\ i' = [i EXCEPT ![t] = 0]
            /\ keys' = [keys EXCEPT ![t] = <<>>]
            /\ pc' = [pc EXCEPT ![t] = "keys_copy_rlock"]
    /\ UNCHANGED <<status, reqShards, numShards, key, val, shardIndex, value, ok, totalLen>>
    /\ UNCHANGED <<getHist, keysHist>>
    /\ UNCHANGED <<calls, accessed, auxVars>>

\* variant: the copy pass ranges over the shard without taking its lock
KeysCopyRLockSkipped(t) ==
    /\ pc[t] = "keys_copy_rlock"
    /\ pc' = [pc EXCEPT ![t] = "keys_copy_range"]
    /\ UNCHANGED <<storeVars, localVars, getHist, keysHist>>
    /\ UNCHANGED <<calls, accessed, auxVars>>

\* second loop: m.shards[i].mu.RLock()
KeysCopyRLock(t) ==
    /\ pc[t] = "keys_copy_rlock"
    /\ CanRLock(shards[i[t]].mu)
    /\ shards' = [shards EXCEPT ![i[t]].mu = RLock(@, t)]
    /\ pc' = [pc EXCEPT ![t] = "keys_copy_range"]
    /\ UNCHANGED <<status, reqShards, numShards, localVars, getHist, keysHist>>
    /\ UNCHANGED <<calls, accessed, auxVars>>

\* variant: the result never grows beyond the capacity totalLen
KeysCopyRangeCapped(t) ==
    /\ pc[t] = "keys_copy_range"
    /\ \E s \in Orders(DOMAIN shards[i[t]].data) :
           LET all == keys[t] \o s
           IN  keys' = [keys EXCEPT ![t] =
                           SubSeq(all, 1, IF Len(all) < totalLen[t] THEN Len(all)
                                                                    ELSE totalLen[t])]
    /\ pc' = [pc EXCEPT ![t] = "keys_copy_runlock"]
    /\ UNCHANGED <<storeVars, key, val, shardIndex, value, ok, i, totalLen>>
    /\ UNCHANGED <<getHist, keysHist>>
    /\ accessed' = [accessed EXCEPT ![t] = i[t]]
    /\ UNCHANGED <<calls, auxVars>>

\* variant: the copy of shard i ranges over the shards 0..i
KeysCopyRangeUpTo(t) ==
    /\ pc[t] = "keys_copy_range"
    /\ \E s \in Orders(UNION {DOMAIN shards[j].data : j \in 0..i[t]}) :
           keys' = [keys EXCEPT ![t] = @ \o s]
    /\ pc' = [pc EXCEPT ![t] = "keys_copy_runlock"]
    /\ UNCHANGED <<storeVars, key, val, shardIndex, value, ok, i, totalLen>>
    /\ UNCHANGED <<getHist, keysHist>>
    /\ accessed' = [accessed EXCEPT ![t] = i[t]]
    /\ UNCHANGED <<calls, auxVars>>

\* second loop: for key := range m.shards[i].data { keys = append(keys, key) }
KeysCopyRange(t) ==
    /\ pc[t] = "keys_copy_range"
    /\ \E s \in Orders(DOMAIN shards[i[t]].data) :
           keys' = [keys EXCEPT ![t] = @ \o s]
    /\ pc' = [pc EXCEPT ![t] = "keys_copy_runlock"]
    /\ UNCHANGED <<storeVars, key, val, shardIndex, value, ok, i, totalLen>>
    /\ UNCHANGED <<getHist, keysHist>>
    /\ accessed' = [accessed EXCEPT ![t] = i[t]]
    /\ UNCHANGED <<calls, auxVars>>

\* variant: the second loop stops one shard early (i < m.numShards-1)
KeysCopyRUnlockSkipLast(t) ==
    /\ pc[t] = "keys_copy_runlock"
    /\ shards' = [shards EXCEPT ![i[t]].mu = RUnlock(@, t)]
    /\ i' = [i EXCEPT ![t] = @ + 1]
    /\ pc' = [pc EXCEPT ![t] = IF i[t] + 1 < numShards - 1 THEN "keys_copy_rlock"
                                                           ELSE "keys_done"]
    /\ UNCHANGED <<status, reqShards, numShards, key, val, shardIndex, value, ok>>
    /\ UNCHANGED <<totalLen, keys, getHist, keysHist>>
    /\ UNCHANGED <<calls, accessed, auxVars>>

\* second loop: RUnlock, i++; after the last shard, return keys
KeysCopyRUnlock(t) ==
    /\ pc[t] = "keys_copy_runlock"
    /\ shards' = [shards EXCEPT ![i[t]].mu = RUnlock(@, t)]
    /\ i' = [i EXCEPT ![t] = @ + 1]
    /\ pc' = [pc EXCEPT ![t] = IF i[t] + 1 < numShards THEN "keys_copy_rlock"
                                                       ELSE "keys_done"]
    /\ UNCHANGED <<status, reqShards, numShards, key, val, shardIndex, value, ok>>
    /\ UNCHANGED <<totalLen, keys, getHist, keysHist>>
    /\ UNCHANGED <<calls, accessed, auxVars>>

\* the caller takes the results of a finished call; the goroutine is free again
Return(t) ==
    /\ pc[t] \in DonePcs
    /\ pc' = [pc EXCEPT ![t] = "idle"]
    /\ key' = [key EXCEPT ![t] = NoKey]
    /\ val' = [val EXCEPT ![t] = ZeroValue]
    /\ shardIndex' = [shardIndex EXCEPT ![t] = 0]
    /\ value' = [value EXCEPT ![t] = ZeroValue]
    /\ ok' = [ok EXCEPT ![t] = FALSE]
    /\ i' = [i EXCEPT ![t] = 0]
    /\ totalLen' = [totalLen EXCEPT ![t] = 0]
    /\ keys' = [keys EXCEPT ![t] = <<>>]
    /\ expect' = [expect EXCEPT ![t] = Unknown]
    /\ prior' = [prior EXCEPT ![t] = Unknown]
    /\ cont' = [cont EXCEPT ![t] = {}]
    /\ disturbed' = [disturbed EXCEPT ![t] = FALSE]
    /\ missed' = [missed EXCEPT ![t] = {}]
    /\ late' = [late EXCEPT ![t] = {}]
    /\ seen' = [seen EXCEPT ![t] = {}]
    /\ UNCHANGED <<storeVars, stable, written, lastLocked>>
    /\ accessed' = [accessed EXCEPT ![t] = NoShard]
    /\ UNCHANGED <<calls, auxVars>>

Next ==
    \/ \E n \in ShardArgs : NewShardedMap(n)
    \/ \E t \in Threads, k \in Keys : GetCall(t, k)
    \/ \E t \in Threads : GetRLock(t)
    \/ \E t \in Threads : GetRead(t)
    \/ \E t \in Threads : GetRUnlock(t)
    \/ \E t \in Threads, k \in Keys, v \in Values : SetCall(t, k, v)
    \/ \E t \in Threads : SetLock(t)
    \/ \E t \in Threads : SetStore(t)
    \/ \E t \in Threads : SetUnlock(t)
    \/ \E t \in Threads, k \in Keys : DeleteCall(t, k)
    \/ \E t \in Threads : DeleteLock(t)
    \/ \E t \in Threads : DeleteDelete(t)
    \/ \E t \in Threads : DeleteUnlock(t)
    \/ \E t \in Threads : KeysCall(t)
    \/ \E t \in Threads : KeysCountRLock(t)
    \/ \E t \in Threads : KeysCountLen(t)
    \/ \E t \in Threads : KeysCountRUnlock(t)
    \/ \E t \in Threads : KeysCopyRLock(t)
    \/ \E t \in Threads : KeysCopyRange(t)
    \/ \E t \in Threads : KeysCopyRUnlock(t)
    \/ \E t \in Threads : Return(t)

Spec == Init /\ [][Next]_vars

\* ---- scheduling: every goroutine inside a call keeps running, and a
\* goroutine waiting in RLock or Lock gets the lock if it is free again and
\* again (sync.RWMutex starves neither readers nor writers) ----
Acquire(t) ==
    GetRLock(t) \/ SetLock(t) \/ DeleteLock(t) \/ KeysCountRLock(t) \/ KeysCopyRLock(t)

Proceed(t) ==
    \/ Acquire(t)
    \/ GetRead(t) \/ GetRUnlock(t)
    \/ SetStore(t) \/ SetUnlock(t)
    \/ DeleteDelete(t) \/ DeleteUnlock(t)
    \/ KeysCountLen(t) \/ KeysCountRUnlock(t)
    \/ KeysCopyRange(t) \/ KeysCopyRUnlock(t)

FairSpec == Spec /\ \A t \in Threads : WF_vars(Proceed(t)) /\ SF_vars(Acquire(t))

\* goroutine t is inside a call that has not run its last statement
InCall(t) == pc[t] \in GetPcs \cup WritePcs \cup KeysPcs
\* goroutine t waits in RLock or Lock for a lock it cannot get now
Blocked(t) ==
    \/ pc[t] = "get_rlock" /\ ~CanRLock(shards[shardIndex[t]].mu)
    \/ pc[t] \in {"set_lock", "del_lock"} /\ ~CanLock(shards[shardIndex[t]].mu)
    \/ pc[t] \in {"keys_count_rlock", "keys_copy_rlock"} /\ ~CanRLock(shards[i[t]].mu)

\* ---- routing check: getShard called by each caller on one store ----
RouteInit ==
    /\ MapInit /\ EquivOff /\ AggOff /\ UpOff /\ TimeoutOff /\ AuthOff
    /\ rNumShards \in 1..(MaxShards + 1)
    /\ \E K \in {IntKeys, FloatKeys} : rKey \in [Threads -> K]
    /\ rIndex = [t \in Threads |-> 0]
    /\ rPc = [t \in Threads |-> "idle"]

\* func (m *ShardedMap) getShard(key K) int
RouteGetShard(t) ==
    /\ rPc[t] = "idle"
    /\ rIndex' = [rIndex EXCEPT ![t] = getShardTyped(rKey[t], rNumShards)]
    /\ rPc' = [rPc EXCEPT ![t] = "routed"]
    /\ UNCHANGED <<mapVars, equivVars, aggVars, upVars, timeoutVars, authVars,
                   rNumShards, rKey>>

RouteNext == \E t \in Threads : RouteGetShard(t)

RouteSpec == RouteInit /\ [][RouteNext]_vars

\* ---- derived views of the state ----
\* what Get(k) would load from the store as it is now
Lookup(k) == MapLoad(shards[getShard(k)].data, k)
\* number of shards whose map has an entry for k
EntryCount(k) == Cardinality({j \in DOMAIN shards : k \in DOMAIN shards[j].data})
\* the mappings of all shards, without the locks
DataOf(sh) == [j \in DOMAIN sh |-> sh[j].data]
\* no call is in progress
Joined == \A t \in Threads : pc[t] \in {"idle"} \cup DonePcs
\* number of occurrences of k in the sequence s
Count(s, k) == Cardinality({j \in DOMAIN s : s[j] = k})

\* C1: a Get(k) called after Set(k, v) returned, with no Set or Delete on k
\* called since that Set was called, returns (v, true), whatever happened to
\* other keys and for every shard count.
C1_SetThenGet ==
    \A t \in Threads :
        (pc[t] = "get_done" /\ expect[t] \in Values)
            => (ok[t] /\ value[t] = expect[t])

\* a Get returned the value of an earlier Set while another key shares its shard
C1_Witness ==
    \E t \in Threads :
        /\ pc[t] = "get_done" /\ expect[t] \in Values /\ ok[t]
        /\ \E k \in StoreKeys : k # key[t] /\ getShard(k) = getShard(key[t])

\* C2: when Set(k, v2) returns after overwriting an existing entry of k (and no
\* other write on k overlapped it), the store maps k to v2 and holds exactly one
\* entry for k.
C2_Overwrite ==
    \A t \in Threads :
        (pc[t] = "set_done" /\ prior[t] \in Values /\ stable[key[t]] = val[t])
            => (Lookup(key[t]) = <<val[t], TRUE>> /\ EntryCount(key[t]) = 1)

\* a Set has replaced a different value
C2_Witness ==
    \E t \in Threads :
        /\ pc[t] = "set_done" /\ prior[t] \in Values /\ prior[t] # val[t]
        /\ stable[key[t]] = val[t]

\* C3: a Get(k) of a key never inserted, or whose last completed write call was
\* a Delete, returns (zero value, false) as an ordinary result.
C3_GetAbsent ==
    \A t \in Threads :
        (pc[t] = "get_done" /\ expect[t] = Absent)
            => (~ok[t] /\ value[t] = ZeroValue)

\* a Get missed a key that had been inserted and then deleted
C3_Witness ==
    \E t \in Threads :
        pc[t] = "get_done" /\ expect[t] = Absent /\ ~ok[t] /\ written[key[t]] # {}

\* C4: the removal step of Delete(k) leaves k absent, and when k was already
\* absent it leaves every shard's mapping as it was.
C4_DeleteIdempotent ==
    [][\A t \in Threads :
          (pc[t] = "del_delete" /\ pc'[t] = "del_unlock")
              => /\ key[t] \notin KeysIn(shards')
                 /\ (key[t] \notin StoreKeys => DataOf(shards') = DataOf(shards))]_vars

\* a second Delete of an inserted key has returned, having found the key absent
C4_Witness ==
    \E t \in Threads :
        /\ pc[t] = "del_done" /\ prior[t] = Absent /\ stable[key[t]] = Absent
        /\ written[key[t]] # {}
        /\ \A u \in Threads \ {t} : pc[u] = "idle"

\* C5: once every call has returned, each key holds the outcome of the write
\* call that last took its shard's lock: the value of that Set, or no entry
\* after a Delete; a key no Set was called with has no entry.
C5_JoinedState ==
    (status = "ready" /\ Joined) =>
        \A k \in Keys :
            /\ Entry(shards[getShard(k)].data, k) = lastLocked[k]
            /\ EntryCount(k) = (IF lastLocked[k] = Absent THEN 0 ELSE 1)
            /\ (written[k] = {} => k \notin StoreKeys)

\* all calls have returned after two write calls on one key overlapped
C5_Witness ==
    status = "ready" /\ Joined /\ \E k \in StoreKeys : stable[k] = Unknown

\* C6: a Get never returns a value no Set was called with for its key, and a Get
\* called after Set(k, v) returned returns (v, true) unless a Set or Delete on k
\* overlapped that Set, was called in between, or overlaps the Get.
C6_Visibility ==
    \A t \in Threads :
        pc[t] = "get_done" =>
            /\ (ok[t] => value[t] \in written[key[t]])
            /\ (expect[t] \in Values => (ok[t] /\ value[t] = expect[t]))

\* a Get returned the value of a completed Set while another goroutine holds the
\* same shard's lock for a write on another key
C6_Witness ==
    \E t \in Threads, u \in Threads :
        /\ pc[t] = "get_done" /\ expect[t] \in Values /\ ok[t]
        /\ pc[u] \in {"set_store", "set_unlock", "del_delete", "del_unlock"}
        /\ key[u] # key[t] /\ shardIndex[u] = shardIndex[t]

\* C7: a Keys call that no Set or Delete call overlapped returns every key
\* present at the call, no other key, and no key twice.
C7_KeysQuiescent ==
    \A t \in Threads :
        (pc[t] = "keys_done" /\ ~disturbed[t])
            => /\ Range(keys[t]) = cont[t]
               /\ Len(keys[t]) = Cardinality(cont[t])

\* an undisturbed Keys call collected keys from two different shards
C7_Witness ==
    \E t \in Threads :
        /\ pc[t] = "keys_done" /\ ~disturbed[t]
        /\ \E j, l \in DOMAIN keys[t] : getShard(keys[t][j]) # getShard(keys[t][l])

\* C8: every key present from before a Keys call until it returns occurs exactly
\* once in the result, also when Set and Delete calls overlap the Keys call.
C8_KeysContinuous ==
    \A t \in Threads :
        pc[t] = "keys_done" => \A k \in cont[t] : Count(keys[t], k) = 1

\* a Keys call overlapped by writes that changed the key set returned a key
\* that was present throughout
C8_Witness ==
    \E t \in Threads :
        /\ pc[t] = "keys_done" /\ disturbed[t]
        /\ cont[t] # {} /\ seen[t] # {cont[t]}

\* C9: a key inserted into a shard after the copy pass scanned that shard without
\* it is missing from the result of Keys, while keys inserted later elsewhere
\* may be included: the result need not be a key set the store ever held.
C9_KeysNotAtomic ==
    \A t \in Threads :
        pc[t] \in CopyPcs \cup {"keys_done"} => missed[t] \cap Range(keys[t]) = {}

\* Keys returned without a key inserted behind its scan, but with a key inserted
\* later; the store never held the returned key set during the call
C9_Witness ==
    \E t \in Threads :
        /\ pc[t] = "keys_done"
        /\ \E k1 \in missed[t], k2 \in late[t] :
               k1 \notin Range(keys[t]) /\ k2 \in Range(keys[t])
        /\ Range(keys[t]) \notin seen[t]

\* C10: NewShardedMap(n) panics, building no store, exactly when n < 1; for
\* n >= 1 it returns a store of n shards, never of a clamped count.
C10_FailFast ==
    /\ status = "panicked" => (reqShards < 1 /\ numShards = 0 /\ shards = <<>>)
    /\ status = "ready" =>
           (reqShards >= 1 /\ numShards = reqShards /\ DOMAIN shards = 0..(reqShards - 1))

\* construction with a negative shard count has panicked
C10_Witness == status = "panicked" /\ reqShards < 0

\* ---- the calls of one caller, run to completion on a store (sh, n) ----
\* the key a map[K]V holds for a: keys equal under == are one entry
MapKey(a) == IF a.mag = 0 THEN [a EXCEPT !.neg = FALSE] ELSE a

NewShards(n) == [j \in 0..(n - 1) |-> <<>>]
\* Get: the entry of key in the shard getShard names
SeqGet(sh, n, a) == MapLoad(sh[getShardTyped(a, n)], MapKey(a))
\* Set: store into the shard getShard names
SeqSet(sh, n, a, v) == [sh EXCEPT ![getShardTyped(a, n)] = MapStore(@, MapKey(a), v)]
\* Delete: delete from the shard getShard names
SeqDelete(sh, n, a) == [sh EXCEPT ![getShardTyped(a, n)] = MapDelete(@, MapKey(a))]
\* Keys, no other call running: the keys of shard 0, 1, .. appended
SeqKeys(sh) == {a \in TypedKeys : \E j \in DOMAIN sh : a \in DOMAIN sh[j]}

RECURSIVE SeqKeysFrom(_, _)
\* Keys, no other call running: the sequences the second loop can build from
\* shard j on, each shard's keys appended in some range order
SeqKeysFrom(sh, j) ==
    IF j \notin DOMAIN sh THEN {<<>>}
    ELSE {s \o r : s \in Orders(DOMAIN sh[j]), r \in SeqKeysFrom(sh, j + 1)}

EquivInit ==
    /\ MapInit /\ RouteOff /\ AggOff /\ UpOff /\ TimeoutOff /\ AuthOff
    /\ eKind \in {"int", "float64"}
    /\ eNumShards \in 2..(MaxShards + 1)
    /\ eOne = NewShards(1)
    /\ eMany = NewShards(eNumShards)
    /\ eResOne = NoResult
    /\ eResMany = NoResult
    /\ eCalls = 0

KeysOfKind == {a \in TypedKeys : a.kind = eKind}
GetResult(r) == [op |-> "get", value |-> r[1], ok |-> r[2]]

EquivGet(a) ==
    /\ eCalls < MaxCalls
    /\ eCalls' = eCalls + 1
    /\ eResOne' = GetResult(SeqGet(eOne, 1, a))
    /\ eResMany' = GetResult(SeqGet(eMany, eNumShards, a))
    /\ UNCHANGED <<mapVars, routeVars, aggVars, upVars, timeoutVars, authVars,
                   eKind, eNumShards, eOne, eMany>>

EquivSet(a, v) ==
    /\ eCalls < MaxCalls
    /\ eCalls' = eCalls + 1
    /\ eOne' = SeqSet(eOne, 1, a, v)
    /\ eMany' = SeqSet(eMany, eNumShards, a, v)
    /\ eResOne' = NoResult
    /\ eResMany' = NoResult
    /\ UNCHANGED <<mapVars, routeVars, aggVars, upVars, timeoutVars, authVars,
                   eKind, eNumShards>>

EquivDelete(a) ==
    /\ eCalls < MaxCalls
    /\ eCalls' = eCalls + 1
    /\ eOne' = SeqDelete(eOne, 1, a)
    /\ eMany' = SeqDelete(eMany, eNumShards, a)
    /\ eResOne' = NoResult
    /\ eResMany' = NoResult
    /\ UNCHANGED <<mapVars, routeVars, aggVars, upVars, timeoutVars, authVars,
                   eKind, eNumShards>>

EquivKeys ==
    /\ eCalls < MaxCalls
    /\ eCalls' = eCalls + 1
    /\ eResOne' = [op |-> "keys", keys |-> SeqKeys(eOne)]
    /\ eResMany' = [op |-> "keys", keys |-> SeqKeys(eMany)]
    /\ UNCHANGED <<mapVars, routeVars, aggVars, upVars, timeoutVars, authVars,
                   eKind, eNumShards, eOne, eMany>>

EquivNext ==
    \/ \E a \in KeysOfKind : EquivGet(a)
    \/ \E a \in KeysOfKind, v \in Values : EquivSet(a, v)
    \/ \E a \in KeysOfKind : EquivDelete(a)
    \/ EquivKeys

EquivSpec == EquivInit /\ [][EquivNext]_vars

\* ---- Aggregate: two fetches joined by an errgroup ----
\* the state after context.WithTimeout and errgroup.WithContext
AggInit ==
    /\ MapInit /\ RouteOff /\ EquivOff /\ UpOff /\ TimeoutOff /\ AuthOff
    /\ profileFunc \in Behaviours
    /\ orderFunc \in Behaviours
    /\ aggPc = "go_profile"
    /\ goPc = [g \in Fetches |-> "unborn"]
    /\ fetched = [g \in Fetches |-> NoFetch]
    /\ gCtx = "live"
    /\ gErr = Nil
    /\ profileName = NoValue
    /\ orderCount = NoValue
    /\ aggResult = <<>>
    /\ aggErr = Nil
    /\ firstErr = Nil

FuncOf(g) == IF g = "profile" THEN profileFunc ELSE orderFunc
\* ctx.Err() of a context that is done
CtxErr == IF gCtx = "deadline" THEN DeadlineExceeded ELSE Canceled

\* g.Go(func() error {...}): start the goroutine of fetch g
AggGo(g) ==
    /\ aggPc = (IF g = "profile" THEN "go_profile" ELSE "go_orders")
    /\ aggPc' = (IF g = "profile" THEN "go_orders" ELSE "wait")
    /\ goPc' = [goPc EXCEPT ![g] = "fetch"]
    /\ UNCHANGED <<profileFunc, orderFunc, fetched, gCtx, gErr, profileName, orderCount,
                   aggResult, aggErr, firstErr>>
    /\ UNCHANGED <<mapVars, routeVars, equivVars, upVars, timeoutVars, authVars>>

\* the deadline of context.WithTimeout(ctx, ua.timeout) passes
AggDeadline ==
    /\ aggPc \in {"go_profile", "go_orders", "wait"}
    /\ gCtx = "live"
    /\ gCtx' = "deadline"
    /\ UNCHANGED <<profileFunc, orderFunc, aggPc, goPc, fetched, gErr, profileName,
                   orderCount, aggResult, aggErr, firstErr>>
    /\ UNCHANGED <<mapVars, routeVars, equivVars, upVars, timeoutVars, authVars>>

\* p, err := ua.profileFunc(gCtx, userID)  /  o, err := ua.orderFunc(gCtx, userID)
AggFetch(g) ==
    /\ goPc[g] = "fetch"
    /\ \E r \in {[value |-> FetchValue[g], err |-> Nil],
                  [value |-> NoValue, err |-> FetchFailure[g]],
                  [value |-> NoValue, err |-> CtxErr]} :
          /\ \/ FuncOf(g) = "ok" /\ r.err = Nil
             \/ FuncOf(g) = "fail" /\ r.err = FetchFailure[g]
             \/ FuncOf(g) = "select" /\ r.err = Nil
             \/ FuncOf(g) \in {"select", "wait"} /\ gCtx # "live" /\ r.err = CtxErr
          /\ fetched' = [fetched EXCEPT ![g] = r]
    /\ goPc' = [goPc EXCEPT ![g] = "fetched"]
    /\ UNCHANGED <<profileFunc, orderFunc, aggPc, gCtx, gErr, profileName, orderCount,
                   aggResult, aggErr, firstErr>>
    /\ UNCHANGED <<mapVars, routeVars, equivVars, upVars, timeoutVars, authVars>>

\* the error the goroutine of fetch g returns for err
Wrapped(g, err) ==
    Errorf(IF g = "profile" THEN "fetchProfile failed: " ELSE "fetchOrders failed: ", err)

\* variant: the group keeps the last error returned instead of the first
AggGoReturnLast(g) ==
    /\ goPc[g] = "fetched"
    /\ goPc' = [goPc EXCEPT ![g] = "returned"]
    /\ IF fetched[g].err # Nil
       THEN /\ gErr' = Wrapped(g, fetched[g].err)
            /\ gCtx' = (IF gCtx = "live" THEN "canceled" ELSE gCtx)
            /\ firstErr' = (IF firstErr = Nil THEN Wrapped(g, fetched[g].err) ELSE firstErr)
            /\ UNCHANGED <<profileName, orderCount>>
       ELSE /\ profileName' = (IF g = "profile" THEN fetched[g].value ELSE profileName)
            /\ orderCount' = (IF g = "orders" THEN fetched[g].value ELSE orderCount)
            /\ UNCHANGED <<gErr, gCtx, firstErr>>
    /\ UNCHANGED <<profileFunc, orderFunc, aggPc, fetched, aggResult, aggErr>>
    /\ UNCHANGED <<mapVars, routeVars, equivVars, upVars, timeoutVars, authVars>>

\* the rest of the function passed to g.Go, and what the group does with
\* the error it returns: the first non-nil error is kept and cancels gCtx
AggGoReturn(g) ==
    /\ goPc[g] = "fetched"
    /\ goPc' = [goPc EXCEPT ![g] = "returned"]
    /\ IF fetched[g].err # Nil
       THEN /\ gErr' = (IF gErr = Nil THEN Wrapped(g, fetched[g].err) ELSE gErr)
            /\ gCtx' = (IF gErr = Nil /\ gCtx = "live" THEN "canceled" ELSE gCtx)
            /\ firstErr' = (IF firstErr = Nil THEN Wrapped(g, fetched[g].err) ELSE firstErr)
            /\ UNCHANGED <<profileName, orderCount>>
       ELSE /\ profileName' = (IF g = "profile" THEN fetched[g].value ELSE profileName)
            /\ orderCount' = (IF g = "orders" THEN fetched[g].value ELSE orderCount)
            /\ UNCHANGED <<gErr, gCtx, firstErr>>
    /\ UNCHANGED <<profileFunc, orderFunc, aggPc, fetched, aggResult, aggErr>>
    /\ UNCHANGED <<mapVars, routeVars, equivVars, upVars, timeoutVars, authVars>>

\* if err := g.Wait(); err != nil { return "", err }; return fmt.Sprintf(...), nil
AggWait ==
    /\ aggPc = "wait"
    /\ \A g \in Fetches : goPc[g] = "returned"
    /\ aggPc' = "done"
    /\ gCtx' = (IF gCtx = "live" THEN "canceled" ELSE gCtx)
    /\ IF gErr # Nil
       THEN aggResult' = <<>> /\ aggErr' = gErr
       ELSE /\ aggResult' = <<"Profile: ", profileName, ", Orders: ", orderCount>>
            /\ aggErr' = Nil
    /\ UNCHANGED <<profileFunc, orderFunc, goPc, fetched, gErr, profileName, orderCount,
                   firstErr>>
    /\ UNCHANGED <<mapVars, routeVars, equivVars, upVars, timeoutVars, authVars>>

AggNext ==
    \/ \E g \in Fetches : AggGo(g)
    \/ AggDeadline
    \/ \E g \in Fetches : AggFetch(g)
    \/ \E g \in Fetches : AggGoReturn(g)
    \/ AggWait

AggSpec == AggInit /\ [][AggNext]_vars

\* ---- UploadFile: validate, create the record, upload, update the status ----
UpInit ==
    /\ MapInit /\ RouteOff /\ EquivOff /\ AggOff /\ TimeoutOff /\ AuthOff
    /\ mockAuth \in {Nil} \cup AuthFailures
    /\ mockCreate \in {Nil} \cup MetadataFailures("insert")
    /\ mockStorage \in {Nil} \cup StorageFailures
    /\ mockUpdate \in {Nil} \cup MetadataFailures("update")
    /\ upPc = "validate"
    /\ upErr = Nil
    /\ upLog = <<>>
    /\ upRet = Nil

\* 1. userID, err := g.auth.ValidateToken(ctx, req.Token)
UpValidateToken ==
    /\ upPc = "validate"
    /\ upLog' = Append(upLog, "ValidateToken")
    /\ upErr' = mockAuth
    /\ IF mockAuth # Nil
       THEN upRet' = WrapWithContext(mockAuth, "upload failed: auth") /\ upPc' = "done"
       ELSE upPc' = "create" /\ UNCHANGED upRet
    /\ UNCHANGED <<mockAuth, mockCreate, mockStorage, mockUpdate>>
    /\ UNCHANGED <<mapVars, routeVars, equivVars, aggVars, timeoutVars, authVars>>

\* 2. fileID, err := g.metadata.CreateFileRecord(...)
UpCreateFileRecord ==
    /\ upPc = "create"
    /\ upLog' = Append(upLog, "CreateFileRecord")
    /\ upErr' = mockCreate
    /\ IF mockCreate # Nil
       THEN upRet' = WrapWithContext(mockCreate, "create file record failed") /\ upPc' = "done"
       ELSE upPc' = "upload" /\ UNCHANGED upRet
    /\ UNCHANGED <<mockAuth, mockCreate, mockStorage, mockUpdate>>
    /\ UNCHANGED <<mapVars, routeVars, equivVars, aggVars, timeoutVars, authVars>>

\* variant: a failed upload returns without updating the file's status
UpStorageUploadNoMark ==
    /\ upPc = "upload"
    /\ upLog' = Append(upLog, "UploadFile")
    /\ upErr' = mockStorage
    /\ IF mockStorage # Nil
       THEN upRet' = WrapWithContext(mockStorage, "upload failed: storage") /\ upPc' = "done"
       ELSE upPc' = "mark_completed" /\ UNCHANGED upRet
    /\ UNCHANGED <<mockAuth, mockCreate, mockStorage, mockUpdate>>
    /\ UNCHANGED <<mapVars, routeVars, equivVars, aggVars, timeoutVars, authVars>>

\* 3. err = g.storage.UploadFile(ctx, req.Bucket, fileID, req.Data)
UpStorageUpload ==
    /\ upPc = "upload"
    /\ upLog' = Append(upLog, "UploadFile")
    /\ upErr' = mockStorage
    /\ upPc' = (IF mockStorage # Nil THEN "mark_failed" ELSE "mark_completed")
    /\ UNCHANGED <<mockAuth, mockCreate, mockStorage, mockUpdate, upRet>>
    /\ UNCHANGED <<mapVars, routeVars, equivVars, aggVars, timeoutVars, authVars>>

\* _ = g.metadata.UpdateFileStatus(ctx, fileID, "failed"); return the upload's error
UpMarkFailed ==
    /\ upPc = "mark_failed"
    /\ upLog' = Append(upLog, "UpdateFileStatus(failed)")
    /\ upRet' = WrapWithContext(upErr, "upload failed: storage")
    /\ upPc' = "done"
    /\ UNCHANGED <<mockAuth, mockCreate, mockStorage, mockUpdate, upErr>>
    /\ UNCHANGED <<mapVars, routeVars, equivVars, aggVars, timeoutVars, authVars>>

\* 4. if err := g.metadata.UpdateFileStatus(ctx, fileID, "completed"); err != nil
UpMarkCompleted ==
    /\ upPc = "mark_completed"
    /\ upLog' = Append(upLog, "UpdateFileStatus(completed)")
    /\ upRet' = WrapWithContext(mockUpdate, "upload failed: status update")
    /\ upPc' = "done"
    /\ UNCHANGED <<mockAuth, mockCreate, mockStorage, mockUpdate, upErr>>
    /\ UNCHANGED <<mapVars, routeVars, equivVars, aggVars, timeoutVars, authVars>>

UpNext ==
    \/ UpValidateToken
    \/ UpCreateFileRecord
    \/ UpStorageUpload
    \/ UpMarkFailed
    \/ UpMarkCompleted

UpSpec == UpInit /\ [][UpNext]_vars

\* ---- IsTimeout on errors that wrap one another ----
\* the errors that wrap e: fmt.Errorf with %w, and the four error types with
\* Err = e and their other fields zero
WrappersOf(e) ==
    {[kind |-> "AuthError", Op |-> <<>>, UserID |-> <<>>, APIKey |-> <<>>, err |-> e,
      isTimeout |-> b] : b \in BOOLEAN}
    \cup {[kind |-> "StorageError", Op |-> <<>>, Bucket |-> <<>>, Key |-> <<>>, err |-> e,
           isTimeout |-> b] : b \in BOOLEAN}
    \cup {[kind |-> "MetadataError", Op |-> <<>>, FileID |-> <<>>, err |-> e],
          [kind |-> "StorageQuotaError", Bucket |-> <<>>, CurrentUsage |-> <<"0">>,
           Limit |-> <<"0">>, err |-> e]}
    \cup (IF e = Nil THEN {} ELSE {Errorf("wrapped: ", e)})

RECURSIVE ErrorsUpTo(_)
\* the non-nil errors with at most d errors in their chain
ErrorsUpTo(d) ==
    IF d = 0 THEN {}
    ELSE {NewError("regular error"), DeadlineExceeded}
         \cup UNION {WrappersOf(e) : e \in ErrorsUpTo(d - 1) \cup {Nil}}

\* err.Unwrap(), nil for an error without the method
Unwrap(e) == IF "err" \in DOMAIN e THEN e.err ELSE Nil

RECURSIVE ErrorsIs(_, _)
\* errors.Is(err, target): some error of the chain equals target
ErrorsIs(e, target) ==
    IF e = Nil THEN FALSE
    ELSE IF e = target THEN TRUE ELSE ErrorsIs(Unwrap(e), target)

\* the error's type has the method Timeout() bool
HasTimeout(e) == e.kind \in {"AuthError", "StorageError", "deadlineExceededError"}
\* e.Timeout()
Timeout(e) == IF e.kind = "deadlineExceededError" THEN TRUE ELSE e.isTimeout

RECURSIVE ErrorsAsTimeout(_)
\* errors.As(err, &te) for te of the interface timeoutError: the first
\* error of the chain that has the method, nil if there is none
ErrorsAsTimeout(e) ==
    IF e = Nil THEN Nil
    ELSE IF HasTimeout(e) THEN e ELSE ErrorsAsTimeout(Unwrap(e))

\* func IsTimeout(err error) bool
IsTimeout(e) ==
    IF e = Nil THEN FALSE
    ELSE IF ErrorsIs(e, DeadlineExceeded) THEN TRUE
    ELSE LET te == ErrorsAsTimeout(e)
         IN  te # Nil /\ Timeout(te)

TimeoutInit ==
    /\ MapInit /\ RouteOff /\ EquivOff /\ AggOff /\ UpOff /\ AuthOff
    /\ tErr \in ErrorsUpTo(MaxDepth) \cup {Nil}
    /\ tResult = FALSE
    /\ tPc = "call"

IsTimeoutCall ==
    /\ tPc = "call"
    /\ tResult' = IsTimeout(tErr)
    /\ tPc' = "done"
    /\ UNCHANGED <<mapVars, routeVars, equivVars, aggVars, upVars, authVars, tErr>>

TimeoutNext == IsTimeoutCall

TimeoutSpec == TimeoutInit /\ [][TimeoutNext]_vars

\* ---- Error() of two AuthError values ----
Ops == {<<"validate_token">>, <<"refresh_token">>}
UserIDs == {<<>>, <<"user123">>}
\* no key, and two keys
APIKeys == {<<>>, <<"sk-super-secret-api-key-12345">>, <<"sk-live-0000">>}
AuthCauses == {Nil, ErrAuthFailed, DeadlineExceeded}

AuthInit ==
    /\ MapInit /\ RouteOff /\ EquivOff /\ AggOff /\ UpOff /\ TimeoutOff
    /\ \E op \in Ops, u \in UserIDs, c \in AuthCauses :
          authErrs \in [Pair -> {[kind |-> "AuthError", Op |-> op, UserID |-> u, APIKey |-> k,
                                  err |-> c, isTimeout |-> FALSE] : k \in APIKeys}]
    /\ errStrings = [j \in Pair |-> <<>>]
    /\ errPc = [j \in Pair |-> "call"]

\* authErrs[j].Error()
AuthErrorCall(j) ==
    /\ errPc[j] = "call"
    /\ errStrings' = [errStrings EXCEPT ![j] = ErrorText(authErrs[j])]
    /\ errPc' = [errPc EXCEPT ![j] = "done"]
    /\ UNCHANGED <<mapVars, routeVars, equivVars, aggVars, upVars, timeoutVars, authErrs>>

AuthNext == \E j \in Pair : AuthErrorCall(j)

AuthSpec == AuthInit /\ [][AuthNext]_vars

\* C11: two getShard calls on stores of the same shard count whose keys are
\* equal as map keys return the same index, whoever the caller is.
C11_RoutingDeterministic ==
    \A t \in Threads, u \in Threads :
        (rPc[t] = "routed" /\ rPc[u] = "routed" /\ KeyEq(rKey[t], rKey[u]))
            => rIndex[t] = rIndex[u]

\* C12: the index getShard returns lies in 0..N-1, and is 0 when N = 1.
C12_IndexInRange ==
    \A t \in Threads :
        rPc[t] = "routed"
            => /\ rIndex[t] \in 0..(rNumShards - 1)
               /\ rNumShards = 1 => rIndex[t] = 0

\* a key whose hash has the top bit set was routed to the last of several shards
C12_Witness ==
    \E t \in Threads :
        /\ rPc[t] = "routed" /\ rNumShards > 1
        /\ hashTypedKey(rKey[t])[8] >= Byte \div 2
        /\ rIndex[t] = rNumShards - 1

\* C13: for the same sequence of calls the store of one shard and the store
\* of several shards return the same Get results and the same Keys key sets.
C13_ShardCountInvisible == eResOne = eResMany

\* C14: under fair scheduling and a fair lock every call that was invoked
\* runs to its return, and in no reachable state are all the goroutines
\* that are inside a call blocked on shard locks.
C14_Termination ==
    /\ [](\A t \in Threads : InCall(t) => \E u \in Threads : InCall(u) /\ ~Blocked(u))
    /\ \A t \in Threads : InCall(t) ~> pc[t] \in DonePcs

\* a Set or Delete call waits for a shard's lock while a Keys call holds it
C14_Witness ==
    \E t \in Threads, u \in Threads :
        /\ pc[t] \in {"set_lock", "del_lock"} /\ Blocked(t)
        /\ pc[u] \in KeysPcs /\ u \in shards[shardIndex[t]].mu.r

\* the fetches whose goroutine has returned an error to the group
Failed == {g \in Fetches : goPc[g] = "returned" /\ fetched[g].err # Nil}
\* the text sub occurs in the text s
Contains(s, sub) ==
    \E j \in 0..(Len(s) - Len(sub)) : SubSeq(s, j + 1, j + Len(sub)) = sub

\* C15: once a fetch has returned an error the context of the other fetch is
\* cancelled, and Aggregate returns the empty result with the first error
\* returned, which wraps the failing fetch's error and contains its message;
\* it returns the combined result without error only when both fetches
\* succeeded.
C15_FailFastJoin ==
    /\ Failed # {} => gCtx # "live"
    /\ aggPc = "done" =>
          IF Failed # {}
          THEN /\ aggResult = <<>>
               /\ aggErr = firstErr
               /\ \E g \in Failed : /\ aggErr = Wrapped(g, fetched[g].err)
                                     /\ aggErr.err = fetched[g].err
                                     /\ Contains(ErrorText(aggErr), ErrorText(fetched[g].err))
          ELSE /\ aggErr = Nil
               /\ \A g \in Fetches : fetched[g].err = Nil
               /\ aggResult = <<"Profile: ", FetchValue.profile, ", Orders: ", FetchValue.orders>>

\* the profile fetch failed first, the orders fetch gave up on the cancelled
\* context, and Aggregate returned the profile fetch's error
C15_Witness ==
    /\ aggPc = "done"
    /\ Failed = Fetches
    /\ fetched["orders"].err = Canceled
    /\ aggErr = Wrapped("profile", FetchFailure.profile)
    /\ aggResult = <<>>

\* the calls of a run in which the upload failed, and of one in which it did not
FailedRun == <<"ValidateToken", "CreateFileRecord", "UploadFile", "UpdateFileStatus(failed)">>
CompletedRun ==
    <<"ValidateToken", "CreateFileRecord", "UploadFile", "UpdateFileStatus(completed)">>
IsPrefix(a, b) == Len(a) <= Len(b) /\ SubSeq(b, 1, Len(a)) = a
\* UploadFile returned an error that wraps e
ReturnedWrapped(e) ==
    /\ upRet # Nil /\ upRet.kind = "wrapError" /\ upRet.err = e
    /\ Contains(ErrorText(upRet), ErrorText(e))

\* C16: UploadFile calls ValidateToken, CreateFileRecord, the storage's
\* UploadFile and UpdateFileStatus in this order and stops at the first step
\* that fails, returning an error that wraps that step's error; a failed
\* upload is followed by UpdateFileStatus(fileID, "failed"), the status
\* "completed" is set only after a successful upload, and nil is returned
\* only if all four steps succeeded.
C16_OrderedSteps ==
    /\ IsPrefix(upLog, FailedRun) \/ IsPrefix(upLog, CompletedRun)
    /\ upLog = CompletedRun => mockStorage = Nil
    /\ upPc = "done" =>
          CASE mockAuth # Nil -> upLog = SubSeq(FailedRun, 1, 1) /\ ReturnedWrapped(mockAuth)
            [] mockAuth = Nil /\ mockCreate # Nil ->
                 upLog = SubSeq(FailedRun, 1, 2) /\ ReturnedWrapped(mockCreate)
            [] mockAuth = Nil /\ mockCreate = Nil /\ mockStorage # Nil ->
                 upLog = FailedRun /\ ReturnedWrapped(mockStorage)
            [] mockAuth = Nil /\ mockCreate = Nil /\ mockStorage = Nil /\ mockUpdate # Nil ->
                 upLog = CompletedRun /\ ReturnedWrapped(mockUpdate)
            [] OTHER -> upLog = CompletedRun /\ upRet = Nil

\* the upload failed, the status was set to "failed" (the error of that
\* update dropped), and the upload's error came back wrapped
C16_Witness ==
    /\ upPc = "done" /\ upLog = FailedRun
    /\ mockStorage # Nil /\ mockUpdate # Nil
    /\ ReturnedWrapped(mockStorage)

RECURSIVE AnyTimeout(_)
\* e or an error in its Unwrap chain is context.DeadlineExceeded or has
\* Timeout() returning true
AnyTimeout(e) ==
    IF e = Nil THEN FALSE
    ELSE \/ e = DeadlineExceeded
         \/ HasTimeout(e) /\ Timeout(e)
         \/ AnyTimeout(Unwrap(e))

\* C17: IsTimeout(err) is true exactly when err or an error in its Unwrap
\* chain is a timeout, also when an outer error reports Timeout() false and
\* a deeper one reports true; it is false for nil.
C17_IsTimeoutChain == tPc = "done" => tResult = AnyTimeout(tErr)

\* C18: the string Error() returns for an AuthError contains the operation
\* name and the user ID and does not contain the (non-empty) APIKey, and two
\* AuthErrors that differ only in their non-empty APIKey give the same string.
C18_KeyRedacted ==
    /\ \A j \in Pair :
          errPc[j] = "done"
              => /\ Contains(errStrings[j], authErrs[j].Op)
                 /\ Contains(errStrings[j], authErrs[j].UserID)
                 /\ authErrs[j].APIKey # <<>>
                      => ~Contains(errStrings[j], authErrs[j].APIKey)
    /\ (/\ \A j \in Pair : errPc[j] = "done" /\ authErrs[j].APIKey # <<>>)
          => errStrings[1] = errStrings[2]

\* Error() has run on two AuthErrors with different non-empty keys
C18_Witness ==
    /\ \A j \in Pair : errPc[j] = "done" /\ authErrs[j].APIKey # <<>>
    /\ authErrs[1].APIKey # authErrs[2].APIKey
    /\ authErrs[1].UserID # <<>>
    /\ errStrings[1] = errStrings[2]

\* the shards whose lock goroutine t holds, in either mode
Held(t) == {j \in DOMAIN shards : shards[j].mu.w = t \/ t \in shards[j].mu.r}
AcquirePcs == {"get_rlock", "set_lock", "del_lock", "keys_count_rlock", "keys_copy_rlock"}

\* C19: no call holds the locks of two shards at once, and a call about to
\* acquire a shard's lock (Keys moving to the next shard, in either pass)
\* holds none.
C19_OneLockAtATime ==
    \A t \in Threads :
        /\ Cardinality(Held(t)) <= 1
        /\ pc[t] \in AcquirePcs => Held(t) = {}

\* a Keys call has released the first shard and is about to lock the second
C19_Witness ==
    \E t \in Threads :
        /\ pc[t] \in {"keys_count_rlock", "keys_copy_rlock"} /\ i[t] > 0
        /\ Held(t) = {}
        /\ \E u \in Threads \ {t} : Held(u) # {}

\* the positions right after a read and right after a write of a shard's data
ReadPcs == {"get_runlock", "keys_count_runlock", "keys_copy_runlock"}
WrotePcs == {"set_unlock", "del_unlock"}

\* C20: a call that has just read a shard's data holds that shard's lock (at
\* least shared), and a call that has just written it holds that shard's
\* lock exclusively.
C20_AccessUnderLock ==
    \A t \in Threads :
        /\ pc[t] \in ReadPcs
              => /\ accessed[t] \in DOMAIN shards
                 /\ t \in shards[accessed[t]].mu.r \/ shards[accessed[t]].mu.w = t
        /\ pc[t] \in WrotePcs
              => /\ accessed[t] \in DOMAIN shards
                 /\ shards[accessed[t]].mu.w = t

\* a Set call has stored into its shard while a Keys call has read another
C20_Witness ==
    \E t \in Threads, u \in Threads :
        /\ pc[t] = "set_unlock" /\ shards[accessed[t]].mu.w = t
        /\ pc[u] = "keys_copy_runlock" /\ u \in shards[accessed[u]].mu.r
        /\ accessed[t] # accessed[u]

\* the goroutines between Lock and Unlock of shard j in Set or Delete
Writers(j) ==
    {t \in Threads : /\ pc[t] \in {"set_store", "set_unlock", "del_delete", "del_unlock"}
                     /\ shardIndex[t] = j}
\* the goroutines between RLock and RUnlock of shard j in Get or Keys
Readers(j) ==
    {t \in Threads :
        \/ pc[t] \in {"get_read", "get_runlock"} /\ shardIndex[t] = j
        \/ pc[t] \in {"keys_count_len", "keys_count_runlock",
                       "keys_copy_range", "keys_copy_runlock"} /\ i[t] = j}

\* C21: for each shard, at most one goroutine is inside a Set or Delete
\* critical section, and when one is, none is inside a Get or Keys read
\* section of that shard.
C21_ReadWriteExclusion ==
    \A j \in DOMAIN shards :
        /\ Cardinality(Writers(j)) <= 1
        /\ Writers(j) # {} => Readers(j) = {}

\* every goroutine is inside a read section of one shard at the same time
C21_Witness ==
    \E j \in DOMAIN shards :
        /\ Readers(j) = Threads
        /\ \E t \in Threads : pc[t] = "get_read"
        /\ \E t \in Threads : pc[t] \in {"keys_copy_range", "get_runlock"}

\* no goroutine other than t holds the lock of the shard t's key routes to
OwnShardFree(t) ==
    \A u \in Threads \ {t} : shardIndex[t] \notin Held(u)

\* C22: a Get, Set or Delete in progress can take its next step whenever no
\* other goroutine holds the lock of its key's shard, whatever locks of other
\* shards are held: the only lock it ever waits for is its own shard's.
C22_ShardsIndependent ==
    \A t \in Threads :
        (pc[t] \in GetPcs \cup WritePcs /\ OwnShardFree(t)) => ENABLED Proceed(t)

\* a Set took its shard's lock and stored while another goroutine held a
\* different shard's lock exclusively
C22_Witness ==
    \E t \in Threads :
        /\ pc[t] = "set_unlock"
        /\ \E u \in Threads \ {t} :
              \E j \in DOMAIN shards \ {shardIndex[t]} :
                  shards[j].mu.w = u /\ pc[u] \in {"set_store", "del_delete"}

\* the copy of shard i appends exactly the keys the shard holds at that step
CopiesShard(t) ==
    (pc[t] = "keys_copy_range" /\ pc'[t] = "keys_copy_runlock") =>
        \E s \in Orders(DOMAIN shards[i[t]].data) : keys'[t] = keys[t] \o s
\* from RLock to RUnlock of the copy pass the shard's mapping does not change
FrozenWhileCopied(t) ==
    pc[t] \in {"keys_copy_range", "keys_copy_runlock"} =>
        shards'[i[t]].data = shards[i[t]].data

\* C23: what Keys returns from shard i is the key set the shard held at one
\* instant of the call: the copy pass appends the shard's keys as they are
\* while it holds the read lock, and no Set or Delete changes the shard
\* between that RLock and its RUnlock, whatever the counting pass saw.
C23_ShardSnapshot ==
    [][\A t \in Threads : CopiesShard(t) /\ FrozenWhileCopied(t)]_vars

\* a shard has been copied whose keys the counting pass had not counted
C23_Witness ==
    \E t \in Threads :
        /\ pc[t] = "keys_copy_runlock"
        /\ DOMAIN shards[i[t]].data # {}
        /\ Len(keys[t]) > totalLen[t]

\* no Set has been called on the store
Fresh == \A k \in Keys : written[k] = {}

\* the store as NewShardedMap(n) leaves it: n shards, and while no call has
\* been made each has an empty mapping and an unheld lock; while no Set has
\* been called every Get finds nothing and every Keys returns nothing
BuiltAsAsked ==
    status = "ready" =>
        /\ reqShards >= 1 /\ numShards = reqShards
        /\ DOMAIN shards = 0..(numShards - 1)
        /\ calls = 0 =>
               \A j \in DOMAIN shards : shards[j] = [mu |-> NewRWMutex, data |-> <<>>]
        /\ Fresh =>
               /\ \A j \in DOMAIN shards : DOMAIN shards[j].data = {}
               /\ \A t \in Threads :
                     /\ pc[t] = "get_done" => (~ok[t] /\ value[t] = ZeroValue)
                     /\ pc[t] = "keys_done" => keys[t] = <<>>

\* C24: NewShardedMap(n), n >= 1, yields n shards, each with an empty
\* mapping and an unheld lock, so a fresh store answers Get with not found
\* and Keys with nothing; and no later step changes the number of shards.
C24_Construction ==
    /\ []BuiltAsAsked
    /\ [][status = "ready" =>
              (numShards' = numShards /\ DOMAIN shards' = DOMAIN shards)]_vars

\* on a fresh store of the largest size a Get and a Keys have completed
C24_Witness ==
    /\ status = "ready" /\ numShards = MaxShards /\ Fresh
    /\ \E t \in Threads : pc[t] = "get_done"
    /\ \E t \in Threads : pc[t] = "keys_done"

\* goroutine t takes a step of a Get or Keys call, the call itself included
ReadStep(t) ==
    /\ pc'[t] # pc[t]
    /\ \/ pc[t] \in GetPcs \cup KeysPcs
       \/ pc[t] = "idle" /\ pc'[t] \in GetPcs \cup KeysPcs \cup {"keys_done"}

\* C25: no step of a Get or of a Keys call changes the mapping of any shard:
\* presence and value of every key are as before the step.
C25_ReadOnly ==
    [][\A t \in Threads : ReadStep(t) => DataOf(shards') = DataOf(shards)]_vars

\* a Get that found its key and a Keys that returned keys have completed
C25_Witness ==
    /\ \E t \in Threads : pc[t] = "get_done" /\ ok[t]
    /\ \E t \in Threads : pc[t] = "keys_done" /\ keys[t] # <<>>
    /\ StoreKeys # {}

\* goroutine t takes a step of a Set or Delete call, the call itself included
WriteStep(t) ==
    /\ pc'[t] # pc[t]
    /\ \/ pc[t] \in WritePcs
       \/ pc[t] = "idle" /\ pc'[t] \in WritePcs

\* C26: a step of Set(k, v) or Delete(k) changes no entry but that of k in
\* the shard k routes to: every other key keeps presence and value in every
\* shard, and the mapping of every other shard is left as it is.
C26_WriteFrame ==
    [][\A t \in Threads : WriteStep(t) =>
          \A j \in DOMAIN shards :
              /\ j # getShard(key'[t]) => shards'[j].data = shards[j].data
              /\ \A k \in Keys \ {key'[t]} :
                     Entry(shards'[j].data, k) = Entry(shards[j].data, k)]_vars

\* a Delete has removed its key from a shard that holds another key
C26_Witness ==
    \E t \in Threads :
        /\ pc[t] = "del_unlock" /\ prior[t] # Absent
        /\ DOMAIN shards[shardIndex[t]].data # {}

\* the shards of the several-shard store that hold an entry for key a
Holders(a) == {j \in DOMAIN eMany : MapKey(a) \in DOMAIN eMany[j]}

\* C27: a key is held by at most one shard, and a shard that holds an entry
\* for a key is the shard getShard names for that key, so Get, Set and
\* Delete of the key address the one shard that can contain it.
C27_KeyPlacement ==
    \A a \in KeysOfKind :
        /\ Cardinality(Holders(a)) <= 1
        /\ \A j \in Holders(a) : getShardTyped(a, eNumShards) = j

\* C28: the sequence a Keys call returns holds no key twice.
C28_NoDuplicateKeys ==
    eResMany.op = "keys" =>
        \A s \in SeqKeysFrom(eMany, 0) :
            \A p \in DOMAIN s, q \in DOMAIN s : p # q => ~KeyEq(s[p], s[q])

\* every held lock is held by a call in progress, inside the section of that
\* shard and in the section's mode; so with no call in progress none is held
HeldOnlyInside ==
    /\ \A j \in DOMAIN shards :
          /\ shards[j].mu.w # NoThread => shards[j].mu.w \in Writers(j)
          /\ shards[j].mu.r \subseteq Readers(j)
    /\ Joined => \A j \in DOMAIN shards : shards[j].mu = NewRWMutex

\* the shard whose lock goroutine t is about to release
Releasing(t) == IF pc[t] \in {"keys_count_runlock", "keys_copy_runlock"} THEN i[t]
                ELSE shardIndex[t]

\* a release gives up a lock the goroutine holds, in the mode it holds it
ReleasesHeld(t) ==
    /\ (pc[t] \in ReadPcs /\ pc'[t] # pc[t]) =>
           /\ t \in shards[Releasing(t)].mu.r
           /\ t \notin shards'[Releasing(t)].mu.r
           /\ shards'[Releasing(t)].mu.w = shards[Releasing(t)].mu.w
    /\ (pc[t] \in WrotePcs /\ pc'[t] # pc[t]) =>
           /\ shards[Releasing(t)].mu.w = t
           /\ shards'[Releasing(t)].mu.w = NoThread
           /\ shards'[Releasing(t)].mu.r = shards[Releasing(t)].mu.r

\* C29: a call releases each lock it took, in the mode it took it, before it
\* returns: with no Get, Set, Delete or Keys in progress no shard lock is
\* held, and every release is of a lock held at that moment, so releases
\* never outnumber acquisitions.
C29_LocksReleased ==
    /\ []HeldOnlyInside
    /\ [][\A t \in Threads : ReleasesHeld(t)]_vars

\* all calls have returned, a Keys and a Set or Delete among the last, and
\* every lock is free
C29_Witness ==
    /\ Joined /\ calls = MaxCalls
    /\ \E t \in Threads : pc[t] = "keys_done"
    /\ \E t \in Threads : pc[t] \in {"set_done", "del_done"}
    /\ \A j \in DOMAIN shards : shards[j].mu = NewRWMutex
====
